---- MODULE Spec2Model ----
(***************************************************************************)
(* A model of the cellular crate: AutomataRules (lib.rs), the 2D engine    *)
(* flat::Automaton (flat.rs: new, tick, par_tick, get_cells) and the 3D    *)
(* engine deep::Automaton (deep.rs: new, tick, get_cells).                 *)
(*                                                                         *)
(* Coordinates are tuples <<x, y>> (Vec2) and <<x, y, z>> (Vec3); a cell   *)
(* map HashMap<Vec, u8> is a function from coordinates to states.          *)
(***************************************************************************)
EXTENDS Integers, Sequences, FiniteSets, TLC

VARIABLES
    dim,              \* 2: flat::Automaton, 3: deep::Automaton
    overflow_checks,  \* the build: TRUE panics on integer overflow, FALSE wraps
    rules,            \* the AutomataRules handed to Automaton::new
    bounds,           \* the bounds handed to Automaton::new
    start_cells,      \* the seed Vec handed to Automaton::new
    ticks_wanted,     \* how many times the caller's loop calls tick
    copy,             \* what the caller holds from get_cells, NoCopy before
    status,           \* "unbuilt" | "ok" | "err" | "panicked"
    err,              \* the u8 payload of Err, -1 when there is none
    cells,            \* Automaton.cells
    op,               \* "none" | "tick" | "par_tick": the call in progress
    phase,            \* "idle" | "count" | "apply": where that call stands
    neighbor_counts,  \* the local neighbor_counts map of the call in progress
    applied,          \* keys the second iteration has visited so far
    workers,          \* par_tick: what each rayon worker holds
    hist              \* the cell maps at construction and after each completed tick

vars == << dim, overflow_checks, rules, bounds, start_cells, ticks_wanted, copy,
           status, err, cells,
           op, phase, neighbor_counts, applied, workers, hist >>

----------------------------------------------------------------------------
(* Bounds of the model                                                     *)

\* ticks (tick or par_tick calls) started per behaviour
MaxTicks == 3

\* largest cell_states drawn for the rules
MaxCellStates == 4

\* rayon worker threads of par_tick
NumWorkers == 2

----------------------------------------------------------------------------
(* Integer widths                                                          *)

\* u8 arithmetic: cell_states and cell states are u8
U8Modulus == 256

\* usize arithmetic: Vec2 and Vec3 components are usize.  The build's usize is
\* 64 bits wide; TLC's integers are 32 bits wide, so the modulus is scaled to
\* 2^30.  It exceeds every coordinate of the model by far, as 2^64 exceeds
\* every coordinate a HashMap can hold.
UsizeModulus == 1073741824

\* a - b on usize in a build that wraps
UsizeWrappingSub(a, b) == (a - b) % UsizeModulus

\* a + b on usize in a build that wraps
UsizeWrappingAdd(a, b) == (a + b) % UsizeModulus

\* a - b on u8 in a build that wraps
U8WrappingSub(a, b) == (a - b) % U8Modulus

----------------------------------------------------------------------------
(* lib.rs: Method, Rule, AutomataRules                                     *)

Moore == "Moore"

VonNeumann == "VonNeumann"

\* Rule::Single(n)
Single(n) == [kind |-> "Single", n |-> n, start |-> 0, end |-> 0, m |-> << >>]

\* Rule::Range(start..end)
Range(s, e) == [kind |-> "Range", n |-> 0, start |-> s, end |-> e, m |-> << >>]

\* Rule::Many(vec)
Many(v) == [kind |-> "Many", n |-> 0, start |-> 0, end |-> 0, m |-> v]

\* AutomataRules::new: stores its four arguments, validates nothing
AutomataRulesNew(to_survive, to_be_born, cell_states, neighbor_method) ==
    [to_survive |-> to_survive, to_be_born |-> to_be_born,
     cell_states |-> cell_states, neighbor_method |-> neighbor_method]

\* Vec::contains / slice::contains
Contains(seq, x) == \E i \in DOMAIN seq : seq[i] = x

\* Range<u8>::contains
RangeContains(r, x) == r.start <= x /\ x < r.end


----------------------------------------------------------------------------
(* Automaton::new                                                          *)

\* a HashMap with no entries
\* the caller holds no map yet
NoCopy == [taken |-> FALSE]

EmptyMap == [v \in {} |-> 0]

\* HashMap::insert
Insert(map, k, val) == (k :> val) @@ map

\* flat.rs: max_neighbors
MaxNeighbors2(neighbor_method) == IF neighbor_method = Moore THEN 8 ELSE 4

\* MaxNeighbors3 with the cell itself among its neighbours
MaxNeighbors3CountsSelf(neighbor_method) == IF neighbor_method = Moore THEN 27 ELSE 7

\* deep.rs: max_neighbors
MaxNeighbors3(neighbor_method) == IF neighbor_method = Moore THEN 26 ELSE 6

MaxNeighborsOf(d, neighbor_method) ==
    IF d = 2 THEN MaxNeighbors2(neighbor_method) ELSE MaxNeighbors3(neighbor_method)

\* RuleExceeds with only the start of a Range checked
RuleExceedsStartOnly(rule, max_neighbors) ==
    CASE rule.kind = "Single" -> rule.n > max_neighbors
      [] rule.kind = "Range"  -> rule.start > max_neighbors
      [] rule.kind = "Many"   -> \E i \in DOMAIN rule.m : rule.m[i] > max_neighbors

\* one arm of the validation of Automaton::new: TRUE when it returns Err
RuleExceeds(rule, max_neighbors) ==
    CASE rule.kind = "Single" -> rule.n > max_neighbors
      [] rule.kind = "Range"  -> rule.start > max_neighbors \/ rule.end > max_neighbors
      [] rule.kind = "Many"   -> \E i \in DOMAIN rule.m : rule.m[i] > max_neighbors

\* LoopOrder2 with the loops running to the bounds inclusive
LoopOrder2Inclusive(b) ==
    [i \in 1..((b[1] + 1) * (b[2] + 1)) |->
        << (i - 1) \div (b[2] + 1), (i - 1) % (b[2] + 1) >>]

\* flat.rs: the coordinates in the order of `for x in 0..bounds.x { for y in 0..bounds.y`
LoopOrder2(b) ==
    [i \in 1..(b[1] * b[2]) |-> << (i - 1) \div b[2], (i - 1) % b[2] >>]

\* deep.rs: the coordinates in the order of the three nested loops
LoopOrder3(b) ==
    [i \in 1..(b[1] * b[2] * b[3]) |->
        << (i - 1) \div (b[2] * b[3]), ((i - 1) \div b[3]) % b[2], (i - 1) % b[3] >>]

LoopOrder(d, b) == IF d = 2 THEN LoopOrder2(b) ELSE LoopOrder3(b)

\* SeedValue with a seed given cell_states, not cell_states - 1
SeedValueNoDecrement(rs, seeds, v) ==
    IF Contains(seeds, v) THEN rs.cell_states ELSE 0

\* the value new inserts for v: cell_states - 1 for a seed, 0 otherwise
SeedValue(rs, seeds, v) ==
    IF Contains(seeds, v) THEN U8WrappingSub(rs.cell_states, 1) ELSE 0

\* the body of the loops of new: one insert per coordinate, in loop order
RECURSIVE Populate(_, _, _, _, _)
Populate(order, i, rs, seeds, map) ==
    IF i > Len(order) THEN map
    ELSE Populate(order, i + 1, rs, seeds,
                  Insert(map, order[i], SeedValue(rs, seeds, order[i])))

\* `a.rules.cell_states - 1` of new overflows: with overflow checks, a panic
NewPanics(d, rs, b, seeds) ==
    /\ overflow_checks
    /\ rs.cell_states = 0
    /\ \E i \in DOMAIN LoopOrder(d, b) : Contains(seeds, LoopOrder(d, b)[i])

\* one entry of the history: the cell map, and the call that produced it
Snapshot(by, map) == [by |-> by, cells |-> map]

\* Automaton::new(rules, bounds, start_cells)
New ==
    /\ status = "unbuilt"
    /\ LET max_neighbors == MaxNeighborsOf(dim, rules.neighbor_method) IN
       IF RuleExceeds(rules.to_survive, max_neighbors)
          \/ RuleExceeds(rules.to_be_born, max_neighbors)
       THEN /\ status' = "err"
            /\ err' = max_neighbors
            /\ UNCHANGED << cells, hist >>
       ELSE IF NewPanics(dim, rules, bounds, start_cells)
       THEN /\ status' = "panicked"
            /\ UNCHANGED << err, cells, hist >>
       ELSE /\ status' = "ok"
            /\ cells' = Populate(LoopOrder(dim, bounds), 1, rules, start_cells, EmptyMap)
            /\ hist' = << Snapshot("new", cells') >>
            /\ UNCHANGED err
    /\ UNCHANGED << dim, overflow_checks, rules, bounds, start_cells, ticks_wanted, copy,
                    op, phase, neighbor_counts, applied, workers >>

----------------------------------------------------------------------------
(* Automaton::tick: the first iteration (neighbor counts)                  *)

\* PossNeighbors2 with the last corner pushed as a second (x+1, y-1)
PossNeighbors2CornerTwice(v, neighbor_method) ==
    LET x == v[1]
        y == v[2]
        primary ==
            << << x, UsizeWrappingSub(y, 1) >>,
               << x, UsizeWrappingAdd(y, 1) >>,
               << UsizeWrappingSub(x, 1), y >>,
               << UsizeWrappingAdd(x, 1), y >> >>
        secondary ==
            << << UsizeWrappingSub(x, 1), UsizeWrappingSub(y, 1) >>,
               << UsizeWrappingSub(x, 1), UsizeWrappingAdd(y, 1) >>,
               << UsizeWrappingAdd(x, 1), UsizeWrappingSub(y, 1) >>,
               << UsizeWrappingAdd(x, 1), UsizeWrappingSub(y, 1) >> >>
    IN  IF neighbor_method = Moore THEN primary \o secondary ELSE primary

\* flat.rs: poss_neighbors of the cell v, in push order, in a build that wraps
PossNeighbors2(v, neighbor_method) ==
    LET x == v[1]
        y == v[2]
        primary ==
            << << x, UsizeWrappingSub(y, 1) >>,
               << x, UsizeWrappingAdd(y, 1) >>,
               << UsizeWrappingSub(x, 1), y >>,
               << UsizeWrappingAdd(x, 1), y >> >>
        secondary ==
            << << UsizeWrappingSub(x, 1), UsizeWrappingSub(y, 1) >>,
               << UsizeWrappingSub(x, 1), UsizeWrappingAdd(y, 1) >>,
               << UsizeWrappingAdd(x, 1), UsizeWrappingSub(y, 1) >>,
               << UsizeWrappingAdd(x, 1), UsizeWrappingAdd(y, 1) >> >>
    IN  IF neighbor_method = Moore THEN primary \o secondary ELSE primary

\* PossNeighbors3 with the diagonal (x+1, y+1, z) pushed as a second (x+1, y-1, z)
PossNeighbors3DiagonalTwice(v, neighbor_method) ==
    LET x  == v[1]
        y  == v[2]
        z  == v[3]
        xm == UsizeWrappingSub(x, 1)
        xp == UsizeWrappingAdd(x, 1)
        ym == UsizeWrappingSub(y, 1)
        yp == UsizeWrappingAdd(y, 1)
        zm == UsizeWrappingSub(z, 1)
        zp == UsizeWrappingAdd(z, 1)
        primary ==
            << << xm, y, z >>, << xp, y, z >>,
               << x, ym, z >>, << x, yp, z >>,
               << x, y, zm >>, << x, y, zp >> >>
        secondary ==
            << << x, ym, zm >>, << x, ym, zp >>, << x, yp, zm >>, << x, yp, zp >>,
               << xm, y, zm >>, << xm, y, zp >>, << xp, y, zm >>, << xp, y, zp >>,
               << xm, ym, z >>, << xm, yp, z >>, << xp, ym, z >>, << xp, ym, z >>,
               << xm, ym, zm >>, << xm, ym, zp >>, << xm, yp, zm >>, << xm, yp, zp >>,
               << xp, ym, zm >>, << xp, ym, zp >>, << xp, yp, zm >>, << xp, yp, zp >> >>
    IN  IF neighbor_method = Moore THEN primary \o secondary ELSE primary

\* PossNeighbors3 with the last corner pushed as a second (x+1, y+1, z-1)
PossNeighbors3CornerTwice(v, neighbor_method) ==
    LET x  == v[1]
        y  == v[2]
        z  == v[3]
        xm == UsizeWrappingSub(x, 1)
        xp == UsizeWrappingAdd(x, 1)
        ym == UsizeWrappingSub(y, 1)
        yp == UsizeWrappingAdd(y, 1)
        zm == UsizeWrappingSub(z, 1)
        zp == UsizeWrappingAdd(z, 1)
        primary ==
            << << xm, y, z >>, << xp, y, z >>,
               << x, ym, z >>, << x, yp, z >>,
               << x, y, zm >>, << x, y, zp >> >>
        secondary ==
            << << x, ym, zm >>, << x, ym, zp >>, << x, yp, zm >>, << x, yp, zp >>,
               << xm, y, zm >>, << xm, y, zp >>, << xp, y, zm >>, << xp, y, zp >>,
               << xm, ym, z >>, << xm, yp, z >>, << xp, ym, z >>, << xp, yp, z >>,
               << xm, ym, zm >>, << xm, ym, zp >>, << xm, yp, zm >>, << xm, yp, zp >>,
               << xp, ym, zm >>, << xp, ym, zp >>, << xp, yp, zm >>, << xp, yp, zm >> >>
    IN  IF neighbor_method = Moore THEN primary \o secondary ELSE primary

\* deep.rs: poss_neighbors of the cell v, in push order, in a build that wraps
PossNeighbors3(v, neighbor_method) ==
    LET x  == v[1]
        y  == v[2]
        z  == v[3]
        xm == UsizeWrappingSub(x, 1)
        xp == UsizeWrappingAdd(x, 1)
        ym == UsizeWrappingSub(y, 1)
        yp == UsizeWrappingAdd(y, 1)
        zm == UsizeWrappingSub(z, 1)
        zp == UsizeWrappingAdd(z, 1)
        primary ==
            << << xm, y, z >>, << xp, y, z >>,
               << x, ym, z >>, << x, yp, z >>,
               << x, y, zm >>, << x, y, zp >> >>
        secondary ==
            << << x, ym, zm >>, << x, ym, zp >>, << x, yp, zm >>, << x, yp, zp >>,
               << xm, y, zm >>, << xm, y, zp >>, << xp, y, zm >>, << xp, y, zp >>,
               << xm, ym, z >>, << xm, yp, z >>, << xp, ym, z >>, << xp, yp, z >>,
               << xm, ym, zm >>, << xm, ym, zp >>, << xm, yp, zm >>, << xm, yp, zp >>,
               << xp, ym, zm >>, << xp, ym, zp >>, << xp, yp, zm >>, << xp, yp, zp >> >>
    IN  IF neighbor_method = Moore THEN primary \o secondary ELSE primary

PossNeighbors(d, v, neighbor_method) ==
    IF d = 2 THEN PossNeighbors2(v, neighbor_method)
    ELSE PossNeighbors3(v, neighbor_method)

\* building poss_neighbors of v overflows (every component has its - 1 and
\* its + 1 among the primary directions): with overflow checks, a panic
PossNeighborsOverflows(v) ==
    \E i \in DOMAIN v : v[i] = 0 \/ v[i] = UsizeModulus - 1

\* CountNeighbors without the test s > &0: every candidate that is a key counts
CountNeighborsAnyState(map, poss_neighbors) ==
    Cardinality({i \in DOMAIN poss_neighbors : poss_neighbors[i] \in DOMAIN map})

\* the loop over poss_neighbors: one increment per candidate that is a key of
\* the map with a state > 0
CountNeighbors(map, poss_neighbors) ==
    Cardinality({i \in DOMAIN poss_neighbors :
                    /\ poss_neighbors[i] \in DOMAIN map
                    /\ map[poss_neighbors[i]] > 0})

\* the closure of the first iteration, for the entry of key v
NeighborCount(d, rs, map, v) ==
    CountNeighbors(map, PossNeighbors(d, v, rs.neighbor_method))

----------------------------------------------------------------------------
(* Automaton::tick: the second iteration (next states)                     *)

\* Matches with the end of a Range taken as inclusive
MatchesInclusiveEnd(rule, neighbor_count) ==
    CASE rule.kind = "Single" -> neighbor_count = rule.n
      [] rule.kind = "Range"  -> rule.start <= neighbor_count /\ neighbor_count <= rule.end
      [] rule.kind = "Many"   -> Contains(rule.m, neighbor_count)

\* the three arms of `match self.rules.to_be_born` / `to_survive`
Matches(rule, neighbor_count) ==
    CASE rule.kind = "Single" -> neighbor_count = rule.n
      [] rule.kind = "Range"  -> RangeContains(rule, neighbor_count)
      [] rule.kind = "Many"   -> Contains(rule.m, neighbor_count)

\* the dead cell of key v is born
WillBeBorn(rs, counts, v) ==
    v \in DOMAIN counts /\ Matches(rs.to_be_born, counts[v])

\* NextState with a live cell that fails to_survive killed at once
NextStateDiesAtOnce(rs, counts, v, s) ==
    IF s = 0
    THEN IF v \in DOMAIN counts /\ Matches(rs.to_be_born, counts[v])
         THEN U8WrappingSub(rs.cell_states, 1) ELSE s
    ELSE IF s = U8WrappingSub(rs.cell_states, 1)
    THEN IF v \in DOMAIN counts /\ Matches(rs.to_survive, counts[v]) THEN s ELSE 0
    ELSE U8WrappingSub(s, 1)

\* NextState with a decaying cell revived when its count matches to_be_born
NextStateRevives(rs, counts, v, s) ==
    IF s = 0 \/ (s # U8WrappingSub(rs.cell_states, 1) /\ v \in DOMAIN counts
                 /\ Matches(rs.to_be_born, counts[v]))
    THEN IF v \in DOMAIN counts /\ Matches(rs.to_be_born, counts[v])
         THEN U8WrappingSub(rs.cell_states, 1) ELSE s
    ELSE IF s = U8WrappingSub(rs.cell_states, 1)
    THEN IF v \in DOMAIN counts
         THEN IF ~Matches(rs.to_survive, counts[v]) THEN U8WrappingSub(s, 1) ELSE s
         ELSE 0
    ELSE U8WrappingSub(s, 1)

\* the closure of the second iteration: the state written for (v, s)
NextState(rs, counts, v, s) ==
    IF s = 0
    THEN IF WillBeBorn(rs, counts, v) THEN U8WrappingSub(rs.cell_states, 1) ELSE s
    ELSE IF s = U8WrappingSub(rs.cell_states, 1)
    THEN IF v \in DOMAIN counts
         THEN IF ~Matches(rs.to_survive, counts[v]) THEN U8WrappingSub(s, 1) ELSE s
         ELSE 0
    ELSE U8WrappingSub(s, 1)

\* `self.rules.cell_states - 1` of the closure overflows: with overflow
\* checks, a panic
NextStateOverflows(rs, counts, v, s) ==
    rs.cell_states = 0 /\ (s # 0 \/ WillBeBorn(rs, counts, v))

----------------------------------------------------------------------------
(* Automaton::tick, step by step.  HashMap iteration visits the keys in an  *)
(* order the hasher decides: each step takes any key not yet visited.       *)

\* number of tick / par_tick calls completed so far
TicksDone == Len(hist) - 1

\* a panic unwinds out of the call in progress
Panic ==
    /\ status' = "panicked"
    /\ op' = "none"
    /\ phase' = "idle"
    /\ neighbor_counts' = EmptyMap
    /\ applied' = {}

\* the call returns: the map it leaves is the next entry of the history
Return(by, map) ==
    /\ op' = "none"
    /\ phase' = "idle"
    /\ neighbor_counts' = EmptyMap
    /\ applied' = {}
    /\ hist' = Append(hist, Snapshot(by, map))

\* tick() is called; on a map without keys both iterations visit nothing
TickCall ==
    /\ status = "ok"
    /\ op = "none"
    /\ TicksDone < ticks_wanted
    /\ IF DOMAIN cells = {}
       THEN /\ hist' = Append(hist, Snapshot("tick", cells))
            /\ UNCHANGED << op, phase >>
       ELSE /\ op' = "tick"
            /\ phase' = "count"
            /\ UNCHANGED hist
    /\ UNCHANGED << dim, overflow_checks, rules, bounds, start_cells, ticks_wanted, copy,
                    status, err,
                    cells, neighbor_counts, applied, workers >>

\* CountStep in one pass: the cell is written as soon as its count is taken
CountStepWritesAtOnce(v) ==
    /\ op = "tick"
    /\ phase = "count"
    /\ v \in DOMAIN cells \ DOMAIN neighbor_counts
    /\ IF overflow_checks /\ PossNeighborsOverflows(v)
       THEN Panic /\ UNCHANGED cells
       ELSE /\ neighbor_counts' =
                   Insert(neighbor_counts, v, NeighborCount(dim, rules, cells, v))
            /\ cells' = [cells EXCEPT ![v] = NextState(rules, neighbor_counts', v, cells[v])]
            /\ phase' = IF DOMAIN neighbor_counts' = DOMAIN cells
                        THEN "apply" ELSE "count"
            /\ UNCHANGED << status, op, applied >>
    /\ UNCHANGED << dim, overflow_checks, rules, bounds, start_cells, ticks_wanted, copy,
                    err, workers, hist >>

\* self.cells.iter().map(..) yields the entry of key v; collect() ends after
\* the last one
CountStep(v) ==
    /\ op = "tick"
    /\ phase = "count"
    /\ v \in DOMAIN cells \ DOMAIN neighbor_counts
    /\ IF overflow_checks /\ PossNeighborsOverflows(v)
       THEN Panic
       ELSE /\ neighbor_counts' =
                   Insert(neighbor_counts, v, NeighborCount(dim, rules, cells, v))
            /\ phase' = IF DOMAIN neighbor_counts' = DOMAIN cells
                        THEN "apply" ELSE "count"
            /\ UNCHANGED << status, op, applied >>
    /\ UNCHANGED << dim, overflow_checks, rules, bounds, start_cells, ticks_wanted, copy,
                    err,
                    cells, workers, hist >>

\* ApplyStep in one pass: the count of v is taken from the map as it stands
\* when v is visited, not from neighbor_counts
ApplyStepInPlace(v) ==
    /\ op = "tick"
    /\ phase = "apply"
    /\ v \in DOMAIN cells \ applied
    /\ cells' = [cells EXCEPT ![v] =
                    NextState(rules, v :> NeighborCount(dim, rules, cells, v), v, cells[v])]
    /\ IF applied \cup {v} = DOMAIN cells
       THEN Return("tick", cells')
       ELSE /\ applied' = applied \cup {v}
            /\ UNCHANGED << op, phase, neighbor_counts, hist >>
    /\ UNCHANGED << dim, overflow_checks, rules, bounds, start_cells, ticks_wanted, copy,
                    status, err, workers >>

\* self.cells.iter_mut().for_each(..) visits the entry of key v; tick returns
\* after the last one
ApplyStep(v) ==
    /\ op = "tick"
    /\ phase = "apply"
    /\ v \in DOMAIN cells \ applied
    /\ IF overflow_checks /\ NextStateOverflows(rules, neighbor_counts, v, cells[v])
       THEN Panic /\ UNCHANGED << cells, hist >>
       ELSE /\ cells' = [cells EXCEPT ![v] = NextState(rules, neighbor_counts, v, cells[v])]
            /\ IF applied \cup {v} = DOMAIN cells
               THEN Return("tick", cells')
               ELSE /\ applied' = applied \cup {v}
                    /\ UNCHANGED << op, phase, neighbor_counts, hist >>
            /\ UNCHANGED status
    /\ UNCHANGED << dim, overflow_checks, rules, bounds, start_cells, ticks_wanted, copy,
                    err, workers >>

----------------------------------------------------------------------------
(* flat.rs: Automaton::par_tick (feature "rayon").  par_iter().map(..)       *)
(* hands every entry to some worker thread; collect() returns when every     *)
(* result is in.  par_iter_mut().for_each(..) then hands every entry to      *)
(* some worker.  A worker reads what its closure reads in one step and       *)
(* delivers what it computed in a later step, so the closures of different   *)
(* entries overlap in every way the scheduler allows.                        *)

\* no worker holds anything
WorkersFree == [w \in 1..NumWorkers |-> [state |-> "free", v |-> << >>, val |-> 0]]

\* keys some worker is holding
Held == { workers[w].v : w \in { u \in 1..NumWorkers : workers[u].state # "free" } }

\* worker w is given the entry of key v and has computed val
Holding(w, state, v, val) ==
    [workers EXCEPT ![w] = [state |-> state, v |-> v, val |-> val]]

\* worker w is done with its entry
Release(w) == [workers EXCEPT ![w] = [state |-> "free", v |-> << >>, val |-> 0]]

\* par_tick() is called (2D only)
ParTickCall ==
    /\ status = "ok"
    /\ dim = 2
    /\ op = "none"
    /\ TicksDone < ticks_wanted
    /\ IF DOMAIN cells = {}
       THEN /\ hist' = Append(hist, Snapshot("par_tick", cells))
            /\ UNCHANGED << op, phase >>
       ELSE /\ op' = "par_tick"
            /\ phase' = "count"
            /\ UNCHANGED hist
    /\ UNCHANGED << dim, overflow_checks, rules, bounds, start_cells, ticks_wanted, copy,
                    status, err,
                    cells, neighbor_counts, applied, workers >>

\* worker w runs the closure of the first iteration on the entry of key v
ParCountTake(w, v) ==
    /\ op = "par_tick"
    /\ phase = "count"
    /\ workers[w].state = "free"
    /\ v \in DOMAIN cells \ (DOMAIN neighbor_counts \cup Held)
    /\ IF overflow_checks /\ PossNeighborsOverflows(v)
       THEN Panic /\ workers' = WorkersFree
       ELSE /\ workers' = Holding(w, "counted", v, NeighborCount(dim, rules, cells, v))
            /\ UNCHANGED << status, op, phase, neighbor_counts, applied >>
    /\ UNCHANGED << dim, overflow_checks, rules, bounds, start_cells, ticks_wanted, copy,
                    err, cells, hist >>

\* ParCountYield without the barrier: the second iteration starts as soon as
\* one count is in
ParCountYieldNoBarrier(w) ==
    /\ op = "par_tick"
    /\ phase = "count"
    /\ workers[w].state = "counted"
    /\ neighbor_counts' = Insert(neighbor_counts, workers[w].v, workers[w].val)
    /\ workers' = Release(w)
    /\ phase' = "apply"
    /\ UNCHANGED << dim, overflow_checks, rules, bounds, start_cells, ticks_wanted, copy,
                    status, err,
                    cells, op, applied, hist >>

\* the result of worker w reaches collect(), which returns after the last one
ParCountYield(w) ==
    /\ op = "par_tick"
    /\ phase = "count"
    /\ workers[w].state = "counted"
    /\ neighbor_counts' = Insert(neighbor_counts, workers[w].v, workers[w].val)
    /\ workers' = Release(w)
    /\ phase' = IF DOMAIN neighbor_counts' = DOMAIN cells THEN "apply" ELSE "count"
    /\ UNCHANGED << dim, overflow_checks, rules, bounds, start_cells, ticks_wanted, copy,
                    status, err,
                    cells, op, applied, hist >>

\* ParApplyTake in one pass: the count of v is taken from the map as it stands
\* when the worker reads, not from neighbor_counts
ParApplyTakeInPlace(w, v) ==
    /\ op = "par_tick"
    /\ phase = "apply"
    /\ workers[w].state = "free"
    /\ v \in DOMAIN cells \ (applied \cup Held)
    /\ workers' = Holding(w, "decided", v,
                          NextState(rules, v :> NeighborCount(dim, rules, cells, v),
                                    v, cells[v]))
    /\ UNCHANGED << dim, overflow_checks, rules, bounds, start_cells, ticks_wanted, copy,
                    status, err,
                    cells, op, phase, neighbor_counts, applied, hist >>

\* worker w runs the closure of the second iteration on the entry of key v:
\* it reads *s and neighbor_counts
ParApplyTake(w, v) ==
    /\ op = "par_tick"
    /\ phase = "apply"
    /\ workers[w].state = "free"
    /\ v \in DOMAIN cells \ (applied \cup Held)
    /\ IF overflow_checks /\ NextStateOverflows(rules, neighbor_counts, v, cells[v])
       THEN Panic /\ workers' = WorkersFree
       ELSE /\ workers' = Holding(w, "decided", v,
                                  NextState(rules, neighbor_counts, v, cells[v]))
            /\ UNCHANGED << status, op, phase, neighbor_counts, applied >>
    /\ UNCHANGED << dim, overflow_checks, rules, bounds, start_cells, ticks_wanted, copy,
                    err, cells, hist >>

\* worker w writes *s; par_tick returns after the last write
ParApplyStore(w) ==
    /\ op = "par_tick"
    /\ phase = "apply"
    /\ workers[w].state = "decided"
    /\ cells' = [cells EXCEPT ![workers[w].v] = workers[w].val]
    /\ workers' = Release(w)
    /\ IF applied \cup {workers[w].v} = DOMAIN cells
       THEN Return("par_tick", cells')
       ELSE /\ applied' = applied \cup {workers[w].v}
            /\ UNCHANGED << op, phase, neighbor_counts, hist >>
    /\ UNCHANGED << dim, overflow_checks, rules, bounds, start_cells, ticks_wanted, copy,
                    status, err >>

----------------------------------------------------------------------------
(* The callers' inputs                                                      *)

\* the survival rules drawn: one of each kind
SurviveRules == { Single(1), Range(1, 3), Many(<< 0, 2 >>) }

\* the birth rules drawn: one of each kind, and one no engine accepts
BornRules == { Single(1), Range(2, 4), Many(<< 1, 3 >>), Single(27) }

Methods == { Moore, VonNeumann }

\* the AutomataRules drawn
RulesDrawn ==
    { AutomataRulesNew(s, b, c, m) :
        s \in SurviveRules, b \in BornRules, c \in 0..MaxCellStates, m \in Methods }

\* the bounds drawn, per engine
BoundsDrawn(d) ==
    IF d = 2 THEN { << 2, 2 >>, << 3, 2 >>, << 0, 2 >> }
    ELSE { << 2, 2, 2 >>, << 1, 2, 2 >>, << 2, 0, 1 >> }

\* the seed lists drawn, per engine: empty, in bounds, out of bounds,
\* with duplicates
SeedsDrawn(d) ==
    IF d = 2
    THEN { << >>,
           << << 0, 0 >> >>,
           << << 0, 0 >>, << 1, 1 >> >>,
           << << 1, 0 >>, << 5, 5 >>, << 1, 0 >> >>,
           << << 0, 0 >>, << 1, 0 >>, << 0, 1 >> >> }
    ELSE { << >>,
           << << 0, 0, 0 >> >>,
           << << 0, 0, 0 >>, << 1, 0, 1 >> >>,
           << << 0, 1, 1 >>, << 5, 5, 5 >>, << 0, 1, 1 >> >>,
           << << 0, 0, 0 >>, << 1, 0, 0 >>, << 0, 1, 0 >>, << 0, 0, 1 >> >> }

Init ==
    /\ dim \in { 2, 3 }
    /\ overflow_checks \in BOOLEAN
    /\ rules \in RulesDrawn
    /\ bounds \in BoundsDrawn(dim)
    /\ start_cells \in SeedsDrawn(dim)
    /\ status = "unbuilt"
    /\ err = -1
    /\ cells = EmptyMap
    /\ op = "none"
    /\ phase = "idle"
    /\ neighbor_counts = EmptyMap
    /\ applied = {}
    /\ workers = WorkersFree
    /\ hist = << >>
    /\ ticks_wanted = MaxTicks
    /\ copy = NoCopy

Next ==
    \/ New
    \/ TickCall
    \/ \E v \in DOMAIN cells : CountStep(v)
    \/ \E v \in DOMAIN cells : ApplyStep(v)

Spec == Init /\ [][Next]_vars

----------------------------------------------------------------------------
(* The 2D engine built with the feature "rayon": every call is tick or      *)
(* par_tick                                                                 *)

InitPar ==
    /\ dim = 2
    /\ overflow_checks \in BOOLEAN
    /\ rules \in { r \in RulesDrawn : r.cell_states \in { 2, MaxCellStates } }
    /\ bounds \in { << 2, 2 >>, << 3, 1 >> }
    /\ start_cells \in SeedsDrawn(2)
    /\ status = "unbuilt"
    /\ err = -1
    /\ cells = EmptyMap
    /\ op = "none"
    /\ phase = "idle"
    /\ neighbor_counts = EmptyMap
    /\ applied = {}
    /\ workers = WorkersFree
    /\ hist = << >>
    /\ ticks_wanted = MaxTicks
    /\ copy = NoCopy

NextPar ==
    \/ New
    \/ TickCall
    \/ \E v \in DOMAIN cells : CountStep(v)
    \/ \E v \in DOMAIN cells : ApplyStep(v)
    \/ ParTickCall
    \/ \E w \in 1..NumWorkers, v \in DOMAIN cells : ParCountTake(w, v)
    \/ \E w \in 1..NumWorkers : ParCountYield(w)
    \/ \E w \in 1..NumWorkers, v \in DOMAIN cells : ParApplyTake(w, v)
    \/ \E w \in 1..NumWorkers : ParApplyStore(w)

SpecPar == InitPar /\ [][NextPar]_vars

----------------------------------------------------------------------------
(* Vocabulary of the properties                                            *)

\* no call is in progress.  The history grows only when a call returns, so
\* the properties of completed calls read it in the states between calls.
Returned == op = "none"

\* the completed calls of tick and par_tick, in order
Calls == 1..(Len(hist) - 1)

\* the cell map call k started from, the one it left, and which call it was
Pre(k) == hist[k].cells

Post(k) == hist[k + 1].cells

By(k) == hist[k + 1].by

\* the rules are AutomataRules of the data model: at least the states dead and alive
ValidCellStates == rules.cell_states >= 2

\* the state of a live cell
Alive == rules.cell_states - 1

\* a rule matches a neighbour count
RuleMatches(rule, count) ==
    \/ rule.kind = "Single" /\ count = rule.n
    \/ rule.kind = "Range" /\ rule.start <= count /\ count < rule.end
    \/ rule.kind = "Many" /\ count \in { rule.m[i] : i \in DOMAIN rule.m }

\* the keys of map that differ from v by at most one in every component
Around(map, v) ==
    { u \in DOMAIN map : \A i \in DOMAIN v : u[i] - v[i] \in { -1, 0, 1 } }

\* what the map holds for v and the cells around it, and nothing else
LocalView(map, v) == [u \in Around(map, v) |-> map[u]]

\* the live-neighbour count of v in map
LiveNeighbors(map, v) == NeighborCount(dim, rules, map, v)

----------------------------------------------------------------------------
(* Properties of tick (flat.rs and deep.rs)                                *)

\* C1: whatever the order in which the two iterations of tick visited the
\* keys, the state tick leaves in a cell is the one decided from the cell's
\* own pre-tick state and the pre-tick states of the cells around it alone;
\* the final map is therefore the same for every order.
C1_TickReadsOnlyPreTickStates ==
    Returned => \A k \in Calls :
        By(k) = "tick" =>
            /\ DOMAIN Post(k) = DOMAIN Pre(k)
            /\ \A v \in DOMAIN Pre(k) :
                  Post(k)[v] =
                      NextState(rules,
                                v :> NeighborCount(dim, rules, LocalView(Pre(k), v), v),
                                v, Pre(k)[v])

\* a 3D tick has completed in which a cell and one of the cells around it
\* both changed state
C1_Witness ==
    \E k \in Calls :
        /\ By(k) = "tick"
        /\ dim = 3
        /\ \E v \in DOMAIN Pre(k) :
              /\ Post(k)[v] # Pre(k)[v]
              /\ \E u \in Around(Pre(k), v) \ {v} : Post(k)[u] # Pre(k)[u]

\* C2: a cell dead before a tick is alive (cell_states - 1) after it if its
\* pre-tick live-neighbour count matches to_be_born, and dead (0) otherwise.
C2_DeadCellBornIffMatch ==
    Returned /\ ValidCellStates =>
        \A k \in Calls :
            By(k) = "tick" =>
                \A v \in DOMAIN Pre(k) :
                    Pre(k)[v] = 0 =>
                        Post(k)[v] =
                            IF RuleMatches(rules.to_be_born, LiveNeighbors(Pre(k), v))
                            THEN Alive ELSE 0

\* one tick has seen a dead cell born and another dead cell stay dead next to
\* a live cell
C2_Witness ==
    /\ ValidCellStates
    /\ \E k \in Calls :
          /\ By(k) = "tick"
          /\ \E u, v \in DOMAIN Pre(k) :
                /\ Pre(k)[u] = 0 /\ Post(k)[u] = Alive
                /\ Pre(k)[v] = 0 /\ Post(k)[v] = 0
                /\ LiveNeighbors(Pre(k), v) > 0

\* C3: a cell alive before a tick stays alive if its pre-tick live-neighbour
\* count matches to_survive, and otherwise has state cell_states - 2.
C3_AliveCellSurvivesIffMatch ==
    Returned /\ ValidCellStates =>
        \A k \in Calls :
            By(k) = "tick" =>
                \A v \in DOMAIN Pre(k) :
                    Pre(k)[v] = Alive =>
                        Post(k)[v] =
                            IF RuleMatches(rules.to_survive, LiveNeighbors(Pre(k), v))
                            THEN Alive ELSE rules.cell_states - 2

\* one tick has seen a live cell survive and another start to decay, with more
\* than two cell states
C3_Witness ==
    /\ rules.cell_states > 2
    /\ \E k \in Calls :
          /\ By(k) = "tick"
          /\ \E u, v \in DOMAIN Pre(k) :
                /\ Pre(k)[u] = Alive /\ Post(k)[u] = Alive
                /\ Pre(k)[v] = Alive /\ Post(k)[v] = Alive - 1

\* C4: a decaying cell (0 < s < cell_states - 1) loses exactly one state per
\* tick, whatever its neighbours and the rules: j ticks later, j <= s, its
\* state is s - j, so it is 0 after exactly s ticks and never alive before.
C4_DecayRunsToZero ==
    Returned => \A i \in 1..Len(hist) : \A j \in 1..(Len(hist) - i) :
        \A v \in DOMAIN hist[i].cells :
            LET s == hist[i].cells[v] IN
            (0 < s /\ s < Alive /\ j <= s) => hist[i + j].cells[v] = s - j

\* a cell in state 2 had live neighbours matching both rules, and is dead two
\* ticks later
C4_Witness ==
    \E i \in 1..(Len(hist) - 2) : \E v \in DOMAIN hist[i].cells :
        /\ hist[i].cells[v] = 2
        /\ 2 < Alive
        /\ RuleMatches(rules.to_be_born, LiveNeighbors(hist[i].cells, v))
        /\ RuleMatches(rules.to_survive, LiveNeighbors(hist[i].cells, v))
        /\ hist[i + 1].cells[v] = 1
        /\ hist[i + 2].cells[v] = 0

----------------------------------------------------------------------------
(* Properties of par_tick (flat.rs)                                        *)

\* the map a tick leaves when every cell is decided from the snapshot map
SnapshotTick(map) ==
    [v \in DOMAIN map |->
        NextState(rules, [u \in DOMAIN map |-> LiveNeighbors(map, u)], v, map[v])]

\* C5: under every interleaving of its workers par_tick leaves the cell map
\* the sequential tick leaves from the same state: each completed call of
\* either leaves the one map decided from the state it started from, and a
\* tick and a par_tick that started from equal states left equal maps.
C5_ParTickEqualsTick ==
    Returned =>
        /\ \A k \in Calls : Post(k) = SnapshotTick(Pre(k))
        /\ \A j, k \in Calls :
              (By(j) = "tick" /\ By(k) = "par_tick" /\ Pre(j) = Pre(k))
                  => Post(j) = Post(k)

\* a tick and a par_tick have both completed from the same state, and changed it
C5_Witness ==
    \E j, k \in Calls :
        /\ By(j) = "tick"
        /\ By(k) = "par_tick"
        /\ Pre(j) = Pre(k)
        /\ Post(k) # Pre(k)

\* the cell map the call in progress started from
PreTick == hist[Len(hist)].cells

\* C6: while tick or par_tick counts, no cell has been written; every count,
\* delivered or still held by a worker, was computed from the pre-tick map;
\* and a cell is written or decided only once neighbor_counts has one entry
\* for every cell.
C6_CountPhaseCompletesBeforeWrites ==
    op # "none" =>
        /\ phase = "count" => (cells = PreTick /\ applied = {})
        /\ \A v \in DOMAIN neighbor_counts :
              neighbor_counts[v] = LiveNeighbors(PreTick, v)
        /\ \A w \in 1..NumWorkers :
              /\ workers[w].state = "counted"
                    => workers[w].val = LiveNeighbors(PreTick, workers[w].v)
              /\ workers[w].state = "decided"
                    => DOMAIN neighbor_counts = DOMAIN cells
        /\ (cells # PreTick \/ applied # {} \/ phase = "apply")
              => DOMAIN neighbor_counts = DOMAIN cells

\* par_tick is applying: a cell not yet visited has a count that a recount on
\* the map as it stands would no longer give
C6_Witness ==
    /\ op = "par_tick"
    /\ phase = "apply"
    /\ \E v \in DOMAIN cells \ applied :
          LiveNeighbors(cells, v) # neighbor_counts[v]

----------------------------------------------------------------------------
(* Properties of Automaton::new and of the cell map                        *)

\* the coordinates with every component in [0, bounds.component)
Box(d, b) ==
    IF d = 2
    THEN { << x, y >> : x \in 0..(b[1] - 1), y \in 0..(b[2] - 1) }
    ELSE { << x, y, z >> : x \in 0..(b[1] - 1), y \in 0..(b[2] - 1), z \in 0..(b[3] - 1) }

\* the coordinates of the seed list
SeedSet == { start_cells[i] : i \in DOMAIN start_cells }

\* C7: once new has returned an automaton, the keys of the cell map are
\* exactly the coordinates within the bounds, at construction, during and
\* after every tick.
C7_KeysAreTheBox ==
    status = "ok" =>
        /\ DOMAIN cells = Box(dim, bounds)
        /\ \A i \in DOMAIN hist : DOMAIN hist[i].cells = Box(dim, bounds)

\* an automaton built from a seed list with a coordinate out of bounds and a
\* duplicate has been ticked, and a cell changed
C7_Witness ==
    /\ status = "ok"
    /\ \E i \in DOMAIN start_cells : start_cells[i] \notin Box(dim, bounds)
    /\ \E i, j \in DOMAIN start_cells : i # j /\ start_cells[i] = start_cells[j]
    /\ \E k \in Calls : Post(k) # Pre(k)

\* C8: every stored cell state is in [0, cell_states - 1], whatever the
\* cell_states of the rules.
C8_StatesBelowCellStates ==
    status = "ok" =>
        \A v \in DOMAIN cells : 0 <= cells[v] /\ cells[v] <= rules.cell_states - 1

\* C9: right after new, a coordinate within the bounds is alive
\* (cell_states - 1) if and only if it occurs in the seed list, and every
\* other one is dead.
C9_SeedFidelity ==
    (status = "ok" /\ ValidCellStates) =>
        \A v \in Box(dim, bounds) :
            /\ hist[1].cells[v] = Alive <=> v \in SeedSet
            /\ v \notin SeedSet => hist[1].cells[v] = 0

\* new has returned an automaton whose seed list held a coordinate within the
\* bounds twice and one out of bounds, and left another coordinate dead
C9_Witness ==
    /\ status = "ok"
    /\ ValidCellStates
    /\ \E i, j \in DOMAIN start_cells :
          i # j /\ start_cells[i] = start_cells[j] /\ start_cells[i] \in Box(dim, bounds)
    /\ SeedSet \ Box(dim, bounds) # {}
    /\ Box(dim, bounds) \ SeedSet # {}

\* the literals of a rule: the value of Single, both ends of Range, the
\* elements of Many
Literals(rule) ==
    CASE rule.kind = "Single" -> { rule.n }
      [] rule.kind = "Range"  -> { rule.start, rule.end }
      [] rule.kind = "Many"   -> { rule.m[i] : i \in DOMAIN rule.m }

\* some literal of to_survive or to_be_born is greater than max_neighbors
SomeLiteralExceeds ==
    \E l \in Literals(rules.to_survive) \cup Literals(rules.to_be_born) :
        l > MaxNeighborsOf(dim, rules.neighbor_method)

\* C10: new returns an error exactly when some literal of to_survive or
\* to_be_born is greater than max_neighbors, and an automaton otherwise; an
\* error comes with no automaton and an automaton with no error.
C10_ErrorIffLiteralExceeds ==
    (status # "unbuilt" /\ ValidCellStates) =>
        /\ status = "err" <=> SomeLiteralExceeds
        /\ status = "ok" <=> ~SomeLiteralExceeds
        /\ status = "err" => (err >= 0 /\ cells = EmptyMap /\ hist = << >>)
        /\ status = "ok" => (err = -1 /\ hist # << >>)

\* new has refused rules in which only the end of the to_be_born Range is too
\* great
C10_Witness ==
    /\ status = "err"
    /\ ValidCellStates
    /\ rules.to_be_born.kind = "Range"
    /\ rules.to_be_born.start <= MaxNeighborsOf(dim, rules.neighbor_method)
    /\ ~(\E l \in Literals(rules.to_survive) :
            l > MaxNeighborsOf(dim, rules.neighbor_method))

----------------------------------------------------------------------------
(* Automaton::new alone, over more rules and more seed lists                *)

\* most seeds in a seed list
MaxSeeds == 3

\* the literals drawn: 0 and the two sides of each max_neighbors (4, 8, 6, 26)
LiteralsDrawn == { 0, 4, 5, 6, 7, 8, 9, 26, 27 }

\* the sequences over S of length at most n
SeqsUpTo(S, n) == UNION { [1..len -> S] : len \in 0..n }

\* the rules drawn: every Single and Range over the literals, every Many of at
\* most two of them
WideRules ==
    { Single(n) : n \in LiteralsDrawn }
        \cup { Range(a, b) : a, b \in LiteralsDrawn }
        \cup { Many(m) : m \in SeqsUpTo(LiteralsDrawn, 2) }

\* the seed coordinates drawn, within and beyond the bounds drawn
SeedCoords(d) ==
    IF d = 2
    THEN (0..2) \X (0..1)
    ELSE { << 0, 0, 0 >>, << 1, 0, 1 >>, << 0, 1, 1 >>, << 1, 1, 0 >>,
           << 2, 0, 0 >>, << 0, 1, 2 >> }

InitNew ==
    /\ dim \in { 2, 3 }
    /\ overflow_checks \in BOOLEAN
    /\ \/ /\ rules \in { AutomataRulesNew(s, b, c, m) :
                            s \in SurviveRules \cup WideRules,
                            b \in BornRules \cup WideRules,
                            c \in { 0, 2 }, m \in Methods }
          /\ rules.to_survive \in SurviveRules \/ rules.to_be_born \in BornRules
          /\ bounds \in { IF dim = 2 THEN << 2, 2 >> ELSE << 2, 1, 2 >> }
          /\ start_cells \in { << >>, << bounds >> }
       \/ /\ rules \in { r \in RulesDrawn :
                            r.to_survive = Single(1) /\ r.to_be_born = Single(1) }
          /\ bounds \in BoundsDrawn(dim)
          /\ start_cells \in SeqsUpTo(SeedCoords(dim), MaxSeeds)
    /\ status = "unbuilt"
    /\ err = -1
    /\ cells = EmptyMap
    /\ op = "none"
    /\ phase = "idle"
    /\ neighbor_counts = EmptyMap
    /\ applied = {}
    /\ workers = WorkersFree
    /\ hist = << >>
    /\ ticks_wanted = MaxTicks
    /\ copy = NoCopy

NextNew == New

SpecNew == InitNew /\ [][NextNew]_vars

----------------------------------------------------------------------------
(* C11: the payload of the error                                            *)

\* C11: the payload of an error of new is the maximum neighbour count of the
\* method and the dimensionality (2D: 4 for VonNeumann, 8 for Moore; 3D: 6 for
\* VonNeumann, 26 for Moore), whichever rule or value is too great; in 3D
\* with Moore, to_survive = Single(27) fails with 26 and Single(26) succeeds.
C11_ErrorPayloadIsMaxNeighbors ==
    status # "unbuilt" =>
        /\ status = "err" =>
              err = CASE dim = 2 /\ rules.neighbor_method = VonNeumann -> 4
                      [] dim = 2 /\ rules.neighbor_method = Moore      -> 8
                      [] dim = 3 /\ rules.neighbor_method = VonNeumann -> 6
                      [] dim = 3 /\ rules.neighbor_method = Moore      -> 26
        /\ (dim = 3 /\ rules.neighbor_method = Moore
                /\ rules.to_survive = Single(27)) =>
              (status = "err" /\ err = 26)
        /\ (dim = 3 /\ rules.neighbor_method = Moore
                /\ rules.to_survive = Single(26)
                /\ (\A l \in Literals(rules.to_be_born) : l <= 26)
                /\ ValidCellStates) =>
              status = "ok"

\* new has refused to_survive = Single(27) in 3D with Moore, with a
\* to_be_born that is within the maximum
C11_Witness ==
    /\ status = "err"
    /\ err = 26
    /\ dim = 3
    /\ rules.neighbor_method = Moore
    /\ rules.to_survive = Single(27)
    /\ rules.to_be_born = Single(1)

----------------------------------------------------------------------------
(* C12, C13: the candidate at component - 1 of a cell on the low edge       *)

\* C12: tick cannot fail: whatever automaton new returned, and in whatever
\* state it is, a call of tick runs to completion without panicking, cells
\* with a component equal to 0 included.
C12_TickNeverPanics ==
    (hist # << >> /\ ValidCellStates) => status # "panicked"

\* the candidates of v that the closure of the first iteration looks up
Candidates(v) == PossNeighbors(dim, v, rules.neighbor_method)

\* candidate u is v moved by one step at most along every axis, in the
\* integers
WithinOneStep(v, u) ==
    \A j \in 1..dim : u[j] - v[j] \in { -1, 0, 1 }

\* C13: no candidate of a cell on the low edge comes from unsigned
\* wraparound: for every cell whose count has been taken, each candidate
\* that was looked up is within one step of the cell on every axis, so that
\* the candidate at component - 1 of a component 0 is never looked up as a
\* wrapped coordinate.
C13_NoWrappedCandidate ==
    ValidCellStates =>
    \A v \in DOMAIN neighbor_counts :
        \A i \in DOMAIN Candidates(v) : WithinOneStep(v, Candidates(v)[i])

----------------------------------------------------------------------------
(* tick with both iterations visiting the keys in one order, that of the    *)
(* loops of new, for grids too large to follow every order (C1 shows that   *)
(* the map a tick leaves does not depend on the order)                      *)

\* ticks of the glider of the example of flat.rs
GliderTicks == 4

\* the first coordinate, in the order of the loops of new, that is not in done
NextInOrder(done) ==
    LET order == LoopOrder(dim, bounds)
        i == CHOOSE i \in DOMAIN order :
                /\ order[i] \notin done
                /\ \A j \in 1..(i - 1) : order[j] \in done
    IN  order[i]

\* the first iteration yields its next entry
CountInOrder ==
    /\ op = "tick"
    /\ phase = "count"
    /\ CountStep(NextInOrder(DOMAIN neighbor_counts))

\* the second iteration visits its next entry
ApplyInOrder ==
    /\ op = "tick"
    /\ phase = "apply"
    /\ ApplyStep(NextInOrder(applied))

\* the seed of the example of flat.rs
GliderSeed == << << 1, 0 >>, << 2, 1 >>, << 0, 2 >>, << 1, 2 >>, << 2, 2 >> >>

\* Conway's rules as AutomataRules: survival on 2 or 3, birth on 3
LifeRules == AutomataRulesNew(Range(2, 4), Single(3), 2, Moore)

\* the rules of the example of flat.rs
DocRules == AutomataRulesNew(Range(3, 5), Single(3), 2, Moore)

\* the seed lists of one or two cells of the box, in loop order
OneOrTwoSeeds(d, b) ==
    LET order == LoopOrder(d, b)
    IN  { << order[i] >> : i \in DOMAIN order }
            \cup { << order[i], order[j] >> : i, j \in DOMAIN order }

InitOrdered ==
    /\ \/ /\ dim = 2
          /\ rules \in { LifeRules, DocRules }
          /\ bounds \in { << 5, 5 >>, << 6, 5 >>, << 5, 7 >> }
          /\ start_cells = GliderSeed
          /\ ticks_wanted = GliderTicks
       \/ /\ dim \in { 2, 3 }
          /\ rules \in { AutomataRulesNew(Range(1, 3), Single(1), 3, m) : m \in Methods }
          /\ bounds = IF dim = 2 THEN << 3, 3 >> ELSE << 3, 3, 3 >>
          /\ start_cells \in OneOrTwoSeeds(dim, bounds)
          /\ ticks_wanted = MaxTicks - 1
    /\ overflow_checks \in BOOLEAN
    /\ status = "unbuilt"
    /\ err = -1
    /\ cells = EmptyMap
    /\ op = "none"
    /\ phase = "idle"
    /\ neighbor_counts = EmptyMap
    /\ applied = {}
    /\ workers = WorkersFree
    /\ hist = << >>
    /\ copy = NoCopy

NextOrdered ==
    \/ New
    \/ TickCall
    \/ CountInOrder
    \/ ApplyInOrder

SpecOrdered == InitOrdered /\ [][NextOrdered]_vars

----------------------------------------------------------------------------
(* C14: the live-neighbour count                                            *)

\* u is a neighbour of v under the method of the rules: it differs from v by
\* at most one on every axis, on exactly one axis for VonNeumann and on at
\* least one for Moore
IsNeighbor(v, u) ==
    LET moved == { j \in 1..dim : u[j] # v[j] }
    IN  /\ \A j \in 1..dim : u[j] - v[j] \in { -1, 0, 1 }
        /\ IF rules.neighbor_method = VonNeumann
           THEN Cardinality(moved) = 1
           ELSE Cardinality(moved) >= 1

\* the coordinates within one step of v on every axis, v included
Cube(v) ==
    IF dim = 2
    THEN { << x, y >> : x \in (v[1] - 1)..(v[1] + 1), y \in (v[2] - 1)..(v[2] + 1) }
    ELSE { << x, y, z >> : x \in (v[1] - 1)..(v[1] + 1), y \in (v[2] - 1)..(v[2] + 1),
                           z \in (v[3] - 1)..(v[3] + 1) }

\* the coordinates that are candidates of v
CandidateSet(v) == { Candidates(v)[i] : i \in DOMAIN Candidates(v) }

\* C14: the count tick computes for a cell v is the number of cells of the
\* grid with a pre-tick state > 0 among the neighbours of v under the method
\* (v itself is not one); and the candidates of a cell off the low edge are
\* exactly its neighbours, each once: 2 * D of them for VonNeumann, 3^D - 1
\* for Moore.  (Stated where collect() has returned the counts of a tick.)
C14_CountIsLiveNeighbors ==
    (phase = "apply" /\ applied = {}) =>
    \A v \in DOMAIN neighbor_counts :
        /\ neighbor_counts[v] =
              Cardinality({ u \in DOMAIN PreTick : PreTick[u] > 0 /\ IsNeighbor(v, u) })
        /\ (\A j \in 1..dim : v[j] >= 1) =>
              /\ CandidateSet(v) = { u \in Cube(v) : IsNeighbor(v, u) }
              /\ Len(Candidates(v)) = Cardinality(CandidateSet(v))
              /\ Len(Candidates(v)) =
                    IF rules.neighbor_method = VonNeumann THEN 2 * dim
                    ELSE IF dim = 2 THEN 8 ELSE 26

\* in 3D with Moore, the count of the centre of the 3x3x3 grid has been taken
\* with a live cell at a corner and a decaying one beside the centre
C14_Witness ==
    /\ dim = 3
    /\ rules.neighbor_method = Moore
    /\ phase = "apply"
    /\ applied = {}
    /\ neighbor_counts[<< 1, 1, 1 >>] >= 2
    /\ PreTick[<< 2, 2, 2 >>] = Alive
    /\ \E u \in DOMAIN PreTick : PreTick[u] > 0 /\ PreTick[u] < Alive

----------------------------------------------------------------------------
(* C16: the glider                                                          *)

\* the glider seed moved by (1, 1)
GliderMoved == { << 2, 1 >>, << 3, 2 >>, << 1, 3 >>, << 2, 3 >>, << 3, 3 >> }

\* C16: in 2D with cell_states = 2, to_survive = Range(2, 4), to_be_born =
\* Single(3), Moore and bounds of at least 5x5, the automaton seeded with the
\* glider (1,0), (2,1), (0,2), (1,2), (2,2) has after exactly 4 ticks the
\* live cells (2,1), (3,2), (1,3), (2,3), (3,3) and every other cell at 0.
C16_GliderMovesDiagonally ==
    (/\ dim = 2
     /\ rules = LifeRules
     /\ bounds[1] >= 5 /\ bounds[2] >= 5
     /\ start_cells = GliderSeed
     /\ Len(hist) > 4) =>
        hist[5].cells = [v \in Box(2, bounds) |-> IF v \in GliderMoved THEN 1 ELSE 0]

\* the fourth tick of the glider has returned, on the 5x5 grid
C16_Witness ==
    /\ rules = LifeRules
    /\ bounds = << 5, 5 >>
    /\ start_cells = GliderSeed
    /\ status = "ok"
    /\ op = "none"
    /\ TicksDone = 4
    /\ hist[1].cells # hist[5].cells

----------------------------------------------------------------------------
(* C15: the empty grid                                                      *)

\* new left no live cell
BuiltEmpty == hist # << >> /\ \A v \in DOMAIN hist[1].cells : hist[1].cells[v] = 0

\* C15: when to_be_born does not match the count 0, an automaton constructed
\* with no live cells has every cell at 0 after any number of ticks (and at
\* every point of every tick).
C15_EmptyGridStaysEmpty ==
    (BuiltEmpty /\ ~RuleMatches(rules.to_be_born, 0)) =>
        \A v \in DOMAIN cells : cells[v] = 0

\* two ticks have returned on a grid with cells, built with no live cell
C15_Witness ==
    /\ BuiltEmpty
    /\ ~RuleMatches(rules.to_be_born, 0)
    /\ ValidCellStates
    /\ DOMAIN cells # {}
    /\ status = "ok"
    /\ op = "none"
    /\ TicksDone >= 2

----------------------------------------------------------------------------
(* flat.rs, deep.rs: Automaton::get_cells, and a caller that owns what it   *)
(* returned.  get_cells borrows &self and tick &mut self, so neither runs   *)
(* while a tick is in progress.                                             *)

\* get_cells with the map moved out of the automaton instead of cloned
GetCellsTakes ==
    /\ status = "ok"
    /\ op = "none"
    /\ copy' = [taken |-> TRUE, at |-> Len(hist), map |-> cells, written |-> {}]
    /\ cells' = EmptyMap
    /\ UNCHANGED << dim, overflow_checks, rules, bounds, start_cells, ticks_wanted,
                    status, err, op, phase, neighbor_counts, applied, workers, hist >>

\* self.cells.clone(): the caller receives a map of its own, equal to cells;
\* at and written record when it was taken and which keys the caller has
\* touched since
GetCells ==
    /\ status = "ok"
    /\ op = "none"
    /\ copy' = [taken |-> TRUE, at |-> Len(hist), map |-> cells, written |-> {}]
    /\ UNCHANGED << dim, overflow_checks, rules, bounds, start_cells, ticks_wanted,
                    status, err, cells, op, phase, neighbor_counts, applied,
                    workers, hist >>

\* the caller overwrites the entry of key v of its map with s
CallerInserts(v, s) ==
    /\ copy.taken
    /\ op = "none"
    /\ v \in DOMAIN copy.map
    /\ s # copy.map[v]
    /\ copy' = [copy EXCEPT !.map = [@ EXCEPT ![v] = s], !.written = @ \cup { v }]
    /\ UNCHANGED << dim, overflow_checks, rules, bounds, start_cells, ticks_wanted,
                    status, err, cells, op, phase, neighbor_counts, applied,
                    workers, hist >>

\* the caller removes the entry of key v from its map
CallerRemoves(v) ==
    /\ copy.taken
    /\ op = "none"
    /\ v \in DOMAIN copy.map
    /\ copy' = [copy EXCEPT !.map = [u \in DOMAIN copy.map \ { v } |-> copy.map[u]],
                            !.written = @ \cup { v }]
    /\ UNCHANGED << dim, overflow_checks, rules, bounds, start_cells, ticks_wanted,
                    status, err, cells, op, phase, neighbor_counts, applied,
                    workers, hist >>

InitCopy ==
    /\ dim \in { 2, 3 }
    /\ overflow_checks \in BOOLEAN
    /\ rules \in { AutomataRulesNew(Range(1, 3), Single(1), c, m) :
                      c \in { 2, 3 }, m \in Methods }
    /\ bounds = IF dim = 2 THEN << 2, 2 >> ELSE << 1, 2, 1 >>
    /\ start_cells \in { << >>, << [i \in 1..dim |-> 0] >> }
    /\ ticks_wanted = MaxTicks - 1
    /\ status = "unbuilt"
    /\ err = -1
    /\ cells = EmptyMap
    /\ op = "none"
    /\ phase = "idle"
    /\ neighbor_counts = EmptyMap
    /\ applied = {}
    /\ workers = WorkersFree
    /\ hist = << >>
    /\ copy = NoCopy

NextCopy ==
    \/ New
    \/ TickCall
    \/ CountInOrder
    \/ ApplyInOrder
    \/ GetCells
    \/ \E v \in DOMAIN cells, s \in { 0, Alive } : CallerInserts(v, s)
    \/ \E v \in DOMAIN cells : CallerRemoves(v)

SpecCopy == InitCopy /\ [][NextCopy]_vars

----------------------------------------------------------------------------
(* C17: get_cells                                                           *)

\* the map the automaton held when the caller's copy was taken
HeldWhenTaken == hist[copy.at].cells

\* C17: get_cells returns a full copy of the current map and leaves the
\* automaton unchanged: whatever the caller does to the returned map, the
\* automaton holds the map its last call left; and whatever ticks follow, the
\* caller's map holds, at every key the caller has not touched, what the
\* automaton held when get_cells returned it.
C17_GetCellsIsAnIndependentCopy ==
    /\ (status = "ok" /\ op = "none") => cells = hist[Len(hist)].cells
    /\ copy.taken =>
          /\ DOMAIN copy.map \cup copy.written = DOMAIN HeldWhenTaken
          /\ \A v \in DOMAIN HeldWhenTaken \ copy.written :
                copy.map[v] = HeldWhenTaken[v]

\* the caller has changed its copy, and a tick that changed the automaton
\* has returned since the copy was taken
C17_Witness ==
    /\ copy.taken
    /\ copy.written # {}
    /\ copy.written # DOMAIN HeldWhenTaken
    /\ op = "none"
    /\ Len(hist) > copy.at
    /\ cells # HeldWhenTaken
    /\ copy.map # cells

----------------------------------------------------------------------------
(* C18: what the validation of new refuses                                  *)

\* some neighbour count that to_survive or to_be_born matches is greater
\* than max_neighbors
SomeMatchedCountExceeds ==
    \E count \in 0..(U8Modulus - 1) :
        /\ count > MaxNeighborsOf(dim, rules.neighbor_method)
        /\ RuleMatches(rules.to_survive, count) \/ RuleMatches(rules.to_be_born, count)

\* C18: new accepts a rule pair exactly when no neighbour count that
\* to_survive or to_be_born can match is greater than max_neighbors; so an
\* empty Range (start >= end) and a Range whose exclusive end is
\* max_neighbors + 1 are accepted.
C18_AcceptsIffNoMatchedCountExceeds ==
    (status # "unbuilt" /\ ValidCellStates) =>
        (status = "ok" <=> ~SomeMatchedCountExceeds)

----------------------------------------------------------------------------
(* C19: a tick that aborts                                                  *)

\* C19: a tick is atomic with respect to failure: when tick or par_tick has
\* returned, every cell has received its next state, and when it has aborted
\* on a panic, no cell of the map has been written: outside a call the
\* automaton holds the map new left or the map of a completed tick.
C19_TickIsAtomic ==
    (op = "none" /\ hist # << >>) =>
        /\ cells = hist[Len(hist)].cells
        /\ \A k \in Calls : Post(k) = SnapshotTick(Pre(k))

\* a tick or par_tick has panicked on a map with a live cell
C19_Witness ==
    /\ status = "panicked"
    /\ hist # << >>
    /\ \E v \in DOMAIN cells : cells[v] > 0
    /\ \E v \in DOMAIN cells : \A j \in 1..dim : v[j] >= 1

----------------------------------------------------------------------------
(* deep::Automaton on a grid one cell deep, beside flat::Automaton          *)

\* the 3D seed list of a 2D seed list: (x, y, 0) for each (x, y)
Deepen(seeds) == [i \in DOMAIN seeds |-> << seeds[i][1], seeds[i][2], 0 >>]

InitDeepFlat ==
    /\ dim = 3
    /\ overflow_checks \in BOOLEAN
    /\ rules \in RulesDrawn
    /\ bounds \in { << 2, 2, 1 >>, << 3, 2, 1 >> }
    /\ start_cells \in { Deepen(seeds) : seeds \in SeedsDrawn(2) }
    /\ ticks_wanted = MaxTicks
    /\ status = "unbuilt"
    /\ err = -1
    /\ cells = EmptyMap
    /\ op = "none"
    /\ phase = "idle"
    /\ neighbor_counts = EmptyMap
    /\ applied = {}
    /\ workers = WorkersFree
    /\ hist = << >>
    /\ copy = NoCopy

NextDeepFlat ==
    \/ New
    \/ TickCall
    \/ \E v \in DOMAIN cells : CountStep(v)
    \/ \E v \in DOMAIN cells : ApplyStep(v)

SpecDeepFlat == InitDeepFlat /\ [][NextDeepFlat]_vars

----------------------------------------------------------------------------
(* C20: the 2D and the 3D engine                                            *)

\* the 2D arguments of which bounds and start_cells are the 3D form
FlatBounds == << bounds[1], bounds[2] >>

FlatSeeds == [i \in DOMAIN start_cells |-> << start_cells[i][1], start_cells[i][2] >>]

\* the map flat::Automaton::new builds from them
FlatNew == Populate(LoopOrder2(FlatBounds), 1, rules, FlatSeeds, EmptyMap)

\* the map a tick of flat::Automaton leaves from map
FlatTick(map) ==
    [v \in DOMAIN map |->
        NextState(rules, [u \in DOMAIN map |-> NeighborCount(2, rules, map, u)], v, map[v])]

\* the 2D map of which the 3D map map is the 3D form: (x, y) holds what
\* (x, y, 0) holds
Flatten(map) ==
    [v \in { << u[1], u[2] >> : u \in DOMAIN map } |-> map[<< v[1], v[2], 0 >>]]

\* the 2D rules check of flat::Automaton::new passes
FlatAccepts ==
    /\ ~RuleExceeds(rules.to_survive, MaxNeighbors2(rules.neighbor_method))
    /\ ~RuleExceeds(rules.to_be_born, MaxNeighbors2(rules.neighbor_method))

\* C20: for rules the 2D constructor accepts, the 3D automaton with bounds
\* (X, Y, 1), seeded with (x, y, 0) for each 2D seed (x, y), has after every
\* number of ticks, at (x, y, 0), the state at (x, y) of the 2D automaton with
\* bounds (X, Y), the same rules and the 2D seeds: the 3D constructor builds
\* the 3D form of the map the 2D constructor builds, and each 3D tick leaves
\* the 3D form of the map the 2D tick leaves from the same states.
C20_DeepOneLayerEqualsFlat ==
    (/\ dim = 3
     /\ bounds[3] = 1
     /\ \A i \in DOMAIN start_cells : start_cells[i][3] = 0
     /\ FlatAccepts
     /\ Returned) =>
        /\ status # "err"
        /\ hist # << >> =>
              /\ DOMAIN hist[1].cells = { << v[1], v[2], 0 >> : v \in DOMAIN FlatNew }
              /\ Flatten(hist[1].cells) = FlatNew
        /\ \A k \in Calls :
              /\ DOMAIN Post(k) = DOMAIN Pre(k)
              /\ Flatten(Post(k)) = FlatTick(Flatten(Pre(k)))

\* the 3D automaton one cell deep has made two ticks that changed its map,
\* under Moore, with a decaying cell
C20_Witness ==
    /\ dim = 3
    /\ bounds = << 3, 2, 1 >>
    /\ rules.neighbor_method = Moore
    /\ FlatAccepts
    /\ Returned
    /\ TicksDone >= 2
    /\ hist[1].cells # hist[2].cells
    /\ hist[2].cells # hist[3].cells
    /\ \E v \in DOMAIN cells : cells[v] > 0 /\ cells[v] < Alive

====
